---------------------------- MODULE Spec2Model ----------------------------
(***************************************************************************)
(* Model of the photo-gallery thumbnail worker: the process lifecycle of   *)
(* main (startup wiring, broker topology, the two goroutines and the       *)
(* supervisory select loop), the object store adapter Bucket.Put/Get, and  *)
(* the subscribe / consume / work pipeline the wiring of main implies.     *)
(***************************************************************************)
EXTENDS Integers, Sequences, FiniteSets

(***************************************************************************)
(* Bounds of the model.                                                    *)
(***************************************************************************)
\* longest byte stream handed to Put
MaxLen == 1
\* number of configured thumbnail dimensions (configs.Thumbs.Dimensions)
NumDimensions == 2
\* how many deliveries the queue hands to the subscriber over all runs
MaxDeliveries == 2
\* how many times the process is started
MaxRuns == 2
\* how many Put/Get calls the bucket specification issues
MaxOps == 3

Bytes == {0, 1}

RECURSIVE SeqsUpTo(_)
SeqsUpTo(n) ==
    IF n = 0 THEN {<< >>}
    ELSE LET shorter == SeqsUpTo(n - 1)
         IN  shorter \cup {Append(s, b) : s \in {t \in shorter : Len(t) = n - 1}, b \in Bytes}

Contents == SeqsUpTo(MaxLen)

Min(a, b) == IF a < b THEN a ELSE b

Prefix(s, n) == SubSeq(s, 1, Min(n, Len(s)))

(***************************************************************************)
(* Object store adapter.  A bucket maps every key to the list of objects   *)
(* committed under it; the backend keeps one live object per key, so the   *)
(* list is empty (no object) or holds the content of the last commit.      *)
(***************************************************************************)
Sources == {"p1", "p2"}
Dimensions == 1 .. NumDimensions

\* storage key of the thumbnail of a source at a dimension
ThumbName(src, d) == << src, d >>

ThumbKeys == {ThumbName(s, d) : s \in Sources, d \in Dimensions}

EmptyBucket(keys) == [k \in keys |-> << >>]

\* a reader: the bytes it yields, then EOF (fails = FALSE) or a read error
Readers == [data : Contents, fails : BOOLEAN]

\* io.Copy(writer, reader): the writer accepts at most wcap bytes before a
\* write fails; the copy ends at the first read or write error
Copy(reader, wcap) ==
    [written |-> Prefix(reader.data, wcap),
     err     |-> (wcap < Len(reader.data)) \/ reader.fails]

\* writer.Close() committing the written bytes as the object of the key
Commit(bucket, key, bytes) == [bucket EXCEPT ![key] = << bytes >>]

\* mutant: a close error is dropped and success is reported
PutIgnoresClose(bucket, key, reader, wcap, closeOk) ==
    LET c == Copy(reader, wcap)
    IN  IF c.err
        THEN [err |-> TRUE, bucket |-> bucket, written |-> c.written, closed |-> FALSE]
        ELSE [err |-> FALSE,
              bucket |-> IF closeOk THEN Commit(bucket, key, c.written) ELSE bucket,
              written |-> c.written, closed |-> TRUE]

\* mutant: the copy error is dropped, the partial write is closed and committed
PutIgnoresCopy(bucket, key, reader, wcap, closeOk) ==
    LET c == Copy(reader, wcap)
    IN  IF closeOk
        THEN [err |-> FALSE, bucket |-> Commit(bucket, key, c.written),
              written |-> c.written, closed |-> TRUE]
        ELSE [err |-> TRUE, bucket |-> bucket, written |-> c.written, closed |-> TRUE]

\* mutant: every Put adds an object under the key instead of replacing it
PutAppends(bucket, key, reader, wcap, closeOk) ==
    LET c == Copy(reader, wcap)
    IN  IF c.err
        THEN [err |-> TRUE, bucket |-> bucket, written |-> c.written, closed |-> FALSE]
        ELSE IF closeOk
             THEN [err |-> FALSE,
                   bucket |-> [bucket EXCEPT ![key] = Append(@, c.written)],
                   written |-> c.written, closed |-> TRUE]
             ELSE [err |-> TRUE, bucket |-> bucket, written |-> c.written, closed |-> TRUE]

\* mutant: the writer is closed after a copy error too, committing the part
\* that was written, and the copy error is returned
PutClosesOnCopyError(bucket, key, reader, wcap, closeOk) ==
    LET c == Copy(reader, wcap)
    IN  IF c.err
        THEN [err |-> TRUE,
              bucket |-> IF closeOk THEN Commit(bucket, key, c.written) ELSE bucket,
              written |-> c.written, closed |-> TRUE]
        ELSE IF closeOk
             THEN [err |-> FALSE, bucket |-> Commit(bucket, key, c.written),
                   written |-> c.written, closed |-> TRUE]
             ELSE [err |-> TRUE, bucket |-> bucket, written |-> c.written, closed |-> TRUE]

\* Bucket.Put: copy the stream to the object writer, then close the writer
Put(bucket, key, reader, wcap, closeOk) ==
    LET c == Copy(reader, wcap)
    IN  IF c.err
        THEN [err |-> TRUE, bucket |-> bucket, written |-> c.written, closed |-> FALSE]
        ELSE IF closeOk
             THEN [err |-> FALSE, bucket |-> Commit(bucket, key, c.written),
                   written |-> c.written, closed |-> TRUE]
             ELSE [err |-> TRUE, bucket |-> bucket, written |-> c.written, closed |-> TRUE]

\* Bucket.Get: NewReader fails for a key without object or a failing backend
Get(bucket, key, backendOk) ==
    IF backendOk /\ bucket[key] # << >>
    THEN [err |-> FALSE, data |-> bucket[key][Len(bucket[key])]]
    ELSE [err |-> TRUE, data |-> << >>]


(***************************************************************************)
(* Broker topology.  The broker holds exchanges, queues and bindings; a    *)
(* declaration of an existing name with the same properties changes        *)
(* nothing, with other properties it is refused.                           *)
(***************************************************************************)
fanoutExchangeKind == "fanout"

ExchangeNames == {"bucket", "worker"}
QueueNames == {"thumbs"}

EmptyBroker == [exchanges |-> {}, queues |-> {}, bindings |-> {}]

\* an exchange of the inbound name left by a foreign declaration of another kind
ForeignBroker ==
    [exchanges |-> {[name |-> "bucket", kind |-> "direct", durable |-> TRUE,
                     autoDelete |-> FALSE, internal |-> FALSE]},
     queues |-> {}, bindings |-> {}]

\* channel.ExchangeDeclare(name, kind, durable, autoDelete, internal, noWait, args)
ExchangeDeclare(b, name, kind, durable, autoDelete, internal, chanOk) ==
    LET e == [name |-> name, kind |-> kind, durable |-> durable,
              autoDelete |-> autoDelete, internal |-> internal]
    IN  IF ~chanOk THEN [err |-> "transport", broker |-> b]
        ELSE IF e \in b.exchanges THEN [err |-> "none", broker |-> b]
        ELSE IF \E x \in b.exchanges : x.name = name
             THEN [err |-> "precondition", broker |-> b]
             ELSE [err |-> "none", broker |-> [b EXCEPT !.exchanges = @ \cup {e}]]

\* channel.QueueDeclare(name, durable, autoDelete, exclusive, noWait, args)
QueueDeclare(b, name, durable, autoDelete, exclusive, chanOk) ==
    LET q == [name |-> name, durable |-> durable, autoDelete |-> autoDelete,
              exclusive |-> exclusive]
    IN  IF ~chanOk THEN [err |-> "transport", name |-> "", broker |-> b]
        ELSE IF q \in b.queues THEN [err |-> "none", name |-> name, broker |-> b]
        ELSE IF \E x \in b.queues : x.name = name
             THEN [err |-> "precondition", name |-> "", broker |-> b]
             ELSE [err |-> "none", name |-> name,
                   broker |-> [b EXCEPT !.queues = @ \cup {q}]]

\* channel.QueueBind(name, key, exchange, noWait, args)
QueueBind(b, name, key, exchange, chanOk) ==
    IF ~chanOk THEN [err |-> "transport", broker |-> b]
    ELSE IF (\E x \in b.queues : x.name = name) /\ (\E x \in b.exchanges : x.name = exchange)
         THEN [err |-> "none",
               broker |-> [b EXCEPT !.bindings =
                              @ \cup {[queue |-> name, key |-> key, exchange |-> exchange]}]]
         ELSE [err |-> "notfound", broker |-> b]

\* what the broker drops when the connection of the process goes away:
\* exclusive and auto-deleted queues with their bindings, then the
\* auto-deleted exchanges that lost their last binding
ConnectionClosed(b) ==
    LET gone     == {q \in b.queues : q.exclusive \/ q.autoDelete}
        goneName == {q.name : q \in gone}
        kept     == {x \in b.bindings : x.queue \notin goneName}
        orphan   == {e \in b.exchanges :
                        /\ e.autoDelete
                        /\ \E x \in b.bindings : x.exchange = e.name
                        /\ ~ \E x \in kept : x.exchange = e.name}
    IN  [exchanges |-> b.exchanges \ orphan,
         queues    |-> b.queues \ gone,
         bindings  |-> {x \in kept : x.exchange \notin {e.name : e \in orphan}}]

\* mutant: the exchange is declared transient (durable = false)
declareExchangeTransient(b, exchangeName, chanOk) ==
    ExchangeDeclare(b, exchangeName, fanoutExchangeKind, FALSE, FALSE, FALSE, chanOk)

\* declareExchange: a durable, non-auto-deleted, non-internal fanout exchange
declareExchange(b, exchangeName, chanOk) ==
    ExchangeDeclare(b, exchangeName, fanoutExchangeKind, TRUE, FALSE, FALSE, chanOk)

\* mutant: the flags of QueueDeclare are shifted, the queue is exclusive
declareAndBindQueueExclusive(b, queue, exchange, declOk, bindOk) ==
    LET d == QueueDeclare(b, queue, TRUE, FALSE, TRUE, declOk)
    IN  IF d.err # "none"
        THEN [q |-> "", err |-> d.err, broker |-> d.broker]
        ELSE LET r == QueueBind(d.broker, d.name, "", exchange, bindOk)
             IN  [q |-> d.name, err |-> r.err, broker |-> r.broker]

\* mutant: the binding is attempted whether or not the declaration succeeded
declareAndBindQueueBindsAnyway(b, queue, exchange, declOk, bindOk) ==
    LET d == QueueDeclare(b, queue, TRUE, FALSE, FALSE, declOk)
        r == QueueBind(d.broker, queue, "", exchange, bindOk)
    IN  IF d.err # "none"
        THEN [q |-> "", err |-> d.err, broker |-> r.broker]
        ELSE [q |-> d.name, err |-> r.err, broker |-> r.broker]

\* declareAndBindQueue: a durable, non-auto-deleted, non-exclusive queue,
\* bound with the empty routing key once its declaration succeeded
declareAndBindQueue(b, queue, exchange, declOk, bindOk) ==
    LET d == QueueDeclare(b, queue, TRUE, FALSE, FALSE, declOk)
    IN  IF d.err # "none"
        THEN [q |-> "", err |-> d.err, broker |-> d.broker]
        ELSE LET r == QueueBind(d.broker, d.name, "", exchange, bindOk)
             IN  [q |-> d.name, err |-> r.err, broker |-> r.broker]


(***************************************************************************)
(* State.                                                                  *)
(***************************************************************************)
VARIABLES
    env,         \* the environment of the process: exchange and queue names
    broker,      \* exchanges, queues and bindings held by the broker
    run,         \* how many times the process was started
    pc,          \* position of main: a startup step, "supervise", "shutdown" or "exited"
    done,        \* startup steps main executed in this run, each with its outcome
    exitCode,    \* status of os.Exit once pc = "exited"
    exitBy,      \* which context ended the process
    q,           \* name of the amqp.Queue returned by declareAndBindQueue
    topoRuns,    \* how many runs completed the topology declaration without error
    sigPending,  \* the buffered signals channel holds an interrupt
    interrupted, \* an interrupt was delivered in this run
    ctxDone,     \* cancel() was called on the shared context
    subPc,       \* position of the subscriber goroutine
    subErr,      \* Subscribe returned an error, which the goroutine logged
    httpPc,      \* position of the HTTP server goroutine
    deferred,    \* the deferred Close calls main registered, in order
    closed,      \* what main closed, in order
    cur,         \* the delivery the subscriber is working on
    deliveries,  \* deliveries handed out so far
    thumbs,      \* the thumbnail bucket
    records,     \* PhotoRecords persisted, in order, by source identifier
    outbox,      \* completion messages published to the outbound exchange
    lastSettle,  \* how the latest delivery was settled
    unsettled,   \* deliveries taken in this run and not settled yet
    ops,         \* calls issued by the bucket specification
    stored,      \* per key, the content of the last Put that returned success
    lastOp       \* the latest direct Put or Get call with its inputs and result

procVars == << run, pc, done, exitCode, exitBy, q, sigPending, interrupted, ctxDone,
               subPc, subErr, httpPc, deferred, closed >>
workVars == << cur, deliveries, records, outbox, lastSettle, unsettled >>
bucketVars == << ops, stored, lastOp >>
vars == << env, broker, topoRuns, procVars, workVars, thumbs, bucketVars >>

(***************************************************************************)
(* main: the startup sequence.                                             *)
(***************************************************************************)
\* mutant: the goroutines are launched before the queue is declared
StartupOrderLaunchEarly ==
    << "config", "database", "objstore", "dial", "channel",
       "declareIn", "declareOut", "launch", "declareQueue", "construct" >>

StartupOrder == << "config", "database", "objstore", "dial", "channel",
                   "declareIn", "declareOut", "declareQueue", "construct", "launch" >>

StepIndex(step) == CHOOSE i \in 1 .. Len(StartupOrder) : StartupOrder[i] = step

After(step) ==
    IF StepIndex(step) = Len(StartupOrder) THEN "supervise"
    ELSE StartupOrder[StepIndex(step) + 1]

\* mutant: the error of a startup step is logged and main carries on
ProceedDespiteError(step, failed) == After(step)

\* if err != nil { log.Fatalln(err) }
Proceed(step, failed) == IF failed THEN "exited" ELSE After(step)

NoDelivery == [src |-> "", dim |-> 0, failed |-> "none", recorded |-> FALSE,
               published |-> FALSE, consumed |-> FALSE]
NoSettle == [kind |-> "none", src |-> "", failed |-> "none", storedDims |-> {},
             recorded |-> FALSE, published |-> FALSE, consumed |-> FALSE]
NoOp == [op |-> "none", key |-> << >>, reader |-> [data |-> << >>, fails |-> FALSE],
         wcap |-> 0, closeOk |-> FALSE, backendOk |-> FALSE, err |-> FALSE,
         written |-> << >>, closed |-> FALSE, data |-> << >>]

InitProcess ==
    /\ run = 1
    /\ pc = "config"
    /\ done = << >>
    /\ exitCode = 0
    /\ exitBy = "none"
    /\ q = ""
    /\ sigPending = FALSE
    /\ interrupted = FALSE
    /\ ctxDone = FALSE
    /\ subPc = "off"
    /\ subErr = FALSE
    /\ httpPc = "off"
    /\ deferred = << >>
    /\ closed = << >>

InitRest ==
    /\ topoRuns = 0
    /\ cur = NoDelivery
    /\ deliveries = 0
    /\ thumbs = EmptyBucket(ThumbKeys)
    /\ records = [s \in Sources |-> << >>]
    /\ outbox = [s \in Sources |-> 0]
    /\ lastSettle = NoSettle
    /\ unsettled = 0
    /\ ops = 0
    /\ stored = [k \in ThumbKeys |-> << >>]
    /\ lastOp = NoOp

Init ==
    /\ env \in [bucketExchange : {"bucket"}, workerExchange : ExchangeNames,
                queue : QueueNames]
    /\ broker \in {EmptyBroker, ForeignBroker}
    /\ InitProcess
    /\ InitRest

\* the startup steps followed by a defer of the Close of what they opened
Deferring == [dial |-> "connection", channel |-> "channel"]

\* os.Exit ends the process at once: no deferred function runs
OsExit(d) == << >>

\* the startup steps in which main operates on the broker channel
ChannelSteps == {"declareIn", "declareOut", "declareQueue"}

\* one startup step of main returning err: on an error log.Fatalln ends the
\* process with status 1 and the broker sees the connection go away
Step(step, err, b) ==
    /\ pc = step
    /\ pc' = Proceed(step, err # "none")
    /\ done' = Append(done, [step |-> step, err |-> err])
    /\ exitCode' = IF pc' = "exited" THEN 1 ELSE exitCode
    /\ exitBy' = IF pc' = "exited" THEN "startup" ELSE exitBy
    /\ broker' = IF pc' = "exited" THEN ConnectionClosed(b) ELSE b
    /\ deferred' = IF pc' # "exited" /\ step \in DOMAIN Deferring
                   THEN Append(deferred, Deferring[step]) ELSE deferred
    /\ closed' = IF pc' = "exited" THEN closed \o OsExit(deferred) ELSE closed

\* the outcomes of a startup call that does not talk to the broker
Outcomes == {"none", "failed"}

restOfProc == << run, sigPending, interrupted, ctxDone, subPc, subErr, httpPc >>

LoadConfig ==
    /\ \E err \in Outcomes : Step("config", err, broker)
    /\ UNCHANGED << env, q, topoRuns, restOfProc, workVars, thumbs, bucketVars >>

ConnectDatabase ==
    /\ \E err \in Outcomes : Step("database", err, broker)
    /\ UNCHANGED << env, q, topoRuns, restOfProc, workVars, thumbs, bucketVars >>

NewObjectStoreClient ==
    /\ \E err \in Outcomes : Step("objstore", err, broker)
    /\ UNCHANGED << env, q, topoRuns, restOfProc, workVars, thumbs, bucketVars >>

DialBroker ==
    /\ \E err \in Outcomes : Step("dial", err, broker)
    /\ UNCHANGED << env, q, topoRuns, restOfProc, workVars, thumbs, bucketVars >>

OpenChannel ==
    /\ \E err \in Outcomes : Step("channel", err, broker)
    /\ UNCHANGED << env, q, topoRuns, restOfProc, workVars, thumbs, bucketVars >>

DeclareInbound ==
    /\ \E chanOk \in BOOLEAN :
          LET r == declareExchange(broker, env.bucketExchange, chanOk)
          IN  Step("declareIn", r.err, r.broker)
    /\ UNCHANGED << env, q, topoRuns, restOfProc, workVars, thumbs, bucketVars >>

DeclareOutbound ==
    /\ \E chanOk \in BOOLEAN :
          LET r == declareExchange(broker, env.workerExchange, chanOk)
          IN  Step("declareOut", r.err, r.broker)
    /\ UNCHANGED << env, q, topoRuns, restOfProc, workVars, thumbs, bucketVars >>

DeclareQueue ==
    /\ \E declOk \in BOOLEAN, bindOk \in BOOLEAN :
          LET r == declareAndBindQueue(broker, env.queue, env.bucketExchange, declOk, bindOk)
          IN  /\ Step("declareQueue", r.err, r.broker)
              /\ q' = r.q
              /\ topoRuns' = IF r.err = "none" THEN topoRuns + 1 ELSE topoRuns
    /\ UNCHANGED << env, restOfProc, workVars, thumbs, bucketVars >>

\* lines 96-113: the components, the signals channel and the shared context
Construct ==
    /\ Step("construct", "none", broker)
    /\ UNCHANGED << env, q, topoRuns, restOfProc, workVars, thumbs, bucketVars >>

\* the two go statements
Launch ==
    /\ Step("launch", "none", broker)
    /\ subPc' = "start"
    /\ httpPc' = "start"
    /\ UNCHANGED << env, q, topoRuns, run, sigPending, interrupted, ctxDone, subErr,
                    workVars, thumbs, bucketVars >>


(***************************************************************************)
(* main: the supervisory loop, and the environment of the process.         *)
(***************************************************************************)
Alive == pc # "exited"

\* os.Exit through log.Fatalln: every goroutine stops where it is
Fatal(by) ==
    /\ pc' = "exited"
    /\ exitCode' = 1
    /\ exitBy' = by
    /\ broker' = ConnectionClosed(broker)
    /\ closed' = closed \o OsExit(deferred)

\* an interrupt reaches the process once signal.Notify registered the
\* channel; the channel buffers one signal, a second one is dropped
Interrupt ==
    /\ pc \in {"launch", "supervise", "shutdown"}
    /\ ~sigPending
    /\ sigPending' = TRUE
    /\ interrupted' = TRUE
    /\ UNCHANGED << env, broker, topoRuns, run, pc, done, exitCode, exitBy, q, ctxDone,
                    subPc, subErr, httpPc, deferred, closed, workVars, thumbs, bucketVars >>

\* main is in its select or in the body of the case <-signals
Supervising == pc \in {"supervise", "shutdown"}

\* case <-signals: the select takes the signal out of the channel and main
\* logs "shutting down..."; the context is not cancelled yet
MainSignal ==
    /\ pc = "supervise"
    /\ sigPending
    /\ sigPending' = FALSE
    /\ pc' = "shutdown"
    /\ UNCHANGED << env, broker, topoRuns, run, done, exitCode, exitBy, q, interrupted,
                    ctxDone, subPc, subErr, httpPc, deferred, closed, workVars, thumbs,
                    bucketVars >>

\* cancel(): the shared context is done and main is back in its select
MainCancel ==
    /\ pc = "shutdown"
    /\ ctxDone' = TRUE
    /\ pc' = "supervise"
    /\ UNCHANGED << env, broker, topoRuns, run, done, exitCode, exitBy, q, sigPending,
                    interrupted, subPc, subErr, httpPc, deferred, closed, workVars, thumbs,
                    bucketVars >>

\* case <-ctx.Done(): log.Fatalln(ctx.Err())
MainCtxDone ==
    /\ pc = "supervise"
    /\ ctxDone
    /\ Fatal("supervisor")
    /\ UNCHANGED << env, topoRuns, run, done, q, sigPending, interrupted, ctxDone,
                    subPc, subErr, httpPc, deferred, workVars, thumbs, bucketVars >>

\* the process is started again against the broker, bucket and database
\* the earlier run left
Restart ==
    /\ pc = "exited"
    /\ run < MaxRuns
    /\ run' = run + 1
    /\ pc' = "config"
    /\ done' = << >>
    /\ exitCode' = 0
    /\ exitBy' = "none"
    /\ q' = ""
    /\ sigPending' = FALSE
    /\ interrupted' = FALSE
    /\ ctxDone' = FALSE
    /\ subPc' = "off"
    /\ subErr' = FALSE
    /\ httpPc' = "off"
    /\ deferred' = << >>
    /\ closed' = << >>
    /\ cur' = NoDelivery
    /\ unsettled' = 0
    /\ UNCHANGED << env, broker, topoRuns, deliveries, records, outbox, lastSettle,
                    thumbs, bucketVars >>

(***************************************************************************)
(* The HTTP server goroutine.                                              *)
(***************************************************************************)
\* engine.Run(":8082") is listening
HttpServe ==
    /\ Alive
    /\ httpPc = "start"
    /\ httpPc' = "serving"
    /\ UNCHANGED << env, broker, topoRuns, run, pc, done, exitCode, exitBy, q, sigPending,
                    interrupted, ctxDone, subPc, subErr, deferred, closed, workVars, thumbs,
                    bucketVars >>

\* mutant: the error of engine.Run is logged with log.Println, as the
\* subscriber goroutine does, and the process goes on
HttpRunErrorLogged ==
    /\ Alive
    /\ httpPc \in {"start", "serving"}
    /\ httpPc' = "failed"
    /\ UNCHANGED << env, broker, topoRuns, run, pc, done, exitCode, exitBy, q, sigPending,
                    interrupted, ctxDone, subPc, subErr, deferred, closed, workVars, thumbs,
                    bucketVars >>

\* engine.Run returned an error: log.Fatalln(err)
HttpRunError ==
    /\ Alive
    /\ httpPc \in {"start", "serving"}
    /\ httpPc' = "failed"
    /\ Fatal("http")
    /\ UNCHANGED << env, topoRuns, run, done, q, sigPending, interrupted, ctxDone,
                    subPc, subErr, deferred, workVars, thumbs, bucketVars >>


(***************************************************************************)
(* The subscriber goroutine: Subscribe, and the Consumer and Worker it     *)
(* calls synchronously for every decoded delivery.                         *)
(***************************************************************************)
\* a delivery either fails to decode or carries a source identifier
Messages == {[decodes |-> FALSE, src |-> ""]}
            \cup {[decodes |-> TRUE, src |-> s] : s \in Sources \cup {""}}

\* the originals held by the photo bucket
Photo(src) == IF src = "p1" THEN << 0, 1 >> ELSE << 1, 0 >>

PhotoBucket == [s \in Sources |-> << Photo(s) >>]

\* the transform: the thumbnail of an original at a dimension
Resize(data, d) == Prefix(data, d)

ThumbNames(src) == {ThumbName(src, d) : d \in Dimensions}

\* the dimensions of a source whose thumbnail the bucket holds
StoredDims(bucket, src) ==
    IF src \in Sources
    THEN {d \in Dimensions : bucket[ThumbName(src, d)] = << Resize(Photo(src), d) >>}
    ELSE {}

\* the keys of a source under which the bucket holds an object
StoredKeys(bucket, src) == {k \in ThumbKeys : k[1] = src /\ bucket[k] # << >>}

\* a unit of work fails on a terminal failure of the steps 1 to 4; a publish
\* failure is logged and does not fail it
WorkerSucceeded(c) == c.failed \in {"none", "publish"}

\* what the Subscriber answers the broker once the Consumer returned
Settlement(c) == IF WorkerSucceeded(c) THEN "ack" ELSE "nack"

\* the subscriber is between taking a delivery and settling it
InFlight == subPc \in {"fetch", "dims", "persist", "publish", "settle"}

subFrame == << env, broker, topoRuns, run, pc, done, exitCode, exitBy, q, sigPending,
               interrupted, ctxDone, httpPc, deferred, closed, bucketVars >>

\* the goroutine starts: NewAmqpSubscriber, Subscribe enters its loop
SubStart ==
    /\ Alive
    /\ subPc = "start"
    /\ subPc' = "recv"
    /\ UNCHANGED << subFrame, subErr, workVars, thumbs >>

\* mutant: the goroutine cancels the shared context after logging the error
SubTransportErrorCancels ==
    /\ Alive
    /\ subPc \in {"start", "recv", "settle"}
    /\ subPc' = "ended"
    /\ subErr' = TRUE
    /\ ctxDone' = TRUE
    /\ UNCHANGED << env, broker, topoRuns, run, pc, done, exitCode, exitBy, q, sigPending,
                    interrupted, httpPc, deferred, closed, bucketVars, workVars, thumbs >>

\* Subscribe returns a transport error, which the goroutine logs. The error
\* strikes at a channel call of the Subscriber: when it starts consuming, at a
\* receive, or at the ack or nack of the delivery in hand. While the Consumer
\* call runs the Subscriber makes no channel call, so a channel that breaks
\* during a unit of work fails the settlement that follows it: the loop ends
\* with the delivery taken and never settled.
SubTransportError ==
    /\ Alive
    /\ subPc \in {"start", "recv", "settle"}
    /\ subPc' = "ended"
    /\ subErr' = TRUE
    /\ UNCHANGED << subFrame, workVars, thumbs >>

\* the loop observes the cancellation and Subscribe returns nil
SubCancelled ==
    /\ Alive
    /\ subPc \in {"start", "recv"}
    /\ ctxDone
    /\ subPc' = "ended"
    /\ UNCHANGED << subFrame, subErr, workVars, thumbs >>

\* a delivery is taken and decoded; a malformed one is rejected, one without
\* source identifier fails the validation of the Consumer
SubReceive ==
    /\ Alive
    /\ subPc = "recv"
    /\ ~ctxDone
    /\ deliveries < MaxDeliveries
    /\ deliveries' = deliveries + 1
    /\ \E m \in Messages :
          IF ~m.decodes
          THEN /\ lastSettle' = [NoSettle EXCEPT !.kind = "reject", !.failed = "decode"]
               /\ UNCHANGED << subPc, cur, unsettled >>
          ELSE /\ cur' = [NoDelivery EXCEPT !.src = m.src, !.dim = 1, !.consumed = TRUE,
                                            !.failed = IF m.src = "" THEN "invalid"
                                                       ELSE "none"]
               /\ subPc' = IF m.src = "" THEN "settle" ELSE "fetch"
               /\ unsettled' = unsettled + 1
               /\ UNCHANGED lastSettle
    /\ UNCHANGED << subFrame, subErr, records, outbox, thumbs >>

\* step 1: fetch the original from the photo bucket
WorkerFetch ==
    /\ Alive
    /\ subPc = "fetch"
    /\ \E backendOk \in BOOLEAN :
          LET r == Get(PhotoBucket, cur.src, backendOk)
          IN  IF r.err
              THEN /\ cur' = [cur EXCEPT !.failed = "fetch"]
                   /\ subPc' = "settle"
              ELSE /\ subPc' = "dims"
                   /\ UNCHANGED cur
    /\ UNCHANGED << subFrame, subErr, deliveries, unsettled, records, outbox, lastSettle,
                    thumbs >>

\* steps 2 and 3 for the next dimension: transform, then store the thumbnail
WorkerDimension ==
    /\ Alive
    /\ subPc = "dims"
    /\ \E transformOk \in BOOLEAN, fails \in BOOLEAN,
          wcap \in 0 .. Len(Resize(Photo(cur.src), cur.dim)), closeOk \in BOOLEAN :
          IF ~transformOk
          THEN /\ cur' = [cur EXCEPT !.failed = "transform"]
               /\ subPc' = "settle"
               /\ UNCHANGED thumbs
          ELSE LET r == Put(thumbs, ThumbName(cur.src, cur.dim),
                            [data |-> Resize(Photo(cur.src), cur.dim), fails |-> fails],
                            wcap, closeOk)
               IN  /\ thumbs' = r.bucket
                   /\ IF r.err
                      THEN /\ cur' = [cur EXCEPT !.failed = "store"]
                           /\ subPc' = "settle"
                      ELSE IF cur.dim = NumDimensions
                           THEN /\ subPc' = "persist"
                                /\ UNCHANGED cur
                           ELSE /\ cur' = [cur EXCEPT !.dim = @ + 1]
                                /\ UNCHANGED subPc
    /\ UNCHANGED << subFrame, subErr, deliveries, unsettled, records, outbox, lastSettle >>

\* step 4: the PhotoRecord of the source is handed to the database. records
\* is the log of the PhotoRecords persisted for a source, in the order of the
\* calls; whether the database keeps one entry or two for a source that was
\* persisted twice is decided by its schema, which the model leaves open.
WorkerPersist ==
    /\ Alive
    /\ subPc = "persist"
    /\ \E ok \in BOOLEAN :
          IF ok
          THEN /\ records' = [records EXCEPT ![cur.src] = Append(@, ThumbNames(cur.src))]
               /\ cur' = [cur EXCEPT !.recorded = TRUE]
               /\ subPc' = "publish"
          ELSE /\ cur' = [cur EXCEPT !.failed = "persist"]
               /\ subPc' = "settle"
               /\ UNCHANGED records
    /\ UNCHANGED << subFrame, subErr, deliveries, unsettled, outbox, lastSettle, thumbs >>

\* step 5: publish the completion message; a failure is only logged
WorkerPublish ==
    /\ Alive
    /\ subPc = "publish"
    /\ \E ok \in BOOLEAN :
          IF ok
          THEN /\ outbox' = [outbox EXCEPT ![cur.src] = @ + 1]
               /\ cur' = [cur EXCEPT !.published = TRUE]
          ELSE /\ cur' = [cur EXCEPT !.failed = "publish"]
               /\ UNCHANGED outbox
    /\ subPc' = "settle"
    /\ UNCHANGED << subFrame, subErr, deliveries, unsettled, records, lastSettle, thumbs >>

\* the Consumer returned and the ack or nack went through: acknowledge on
\* success, negatively acknowledge on failure. An ack or nack that fails with
\* a transport error is SubTransportError at "settle".
SubSettle ==
    /\ Alive
    /\ subPc = "settle"
    /\ lastSettle' = [kind       |-> Settlement(cur),
                      src        |-> cur.src,
                      failed     |-> cur.failed,
                      storedDims |-> StoredDims(thumbs, cur.src),
                      recorded   |-> cur.recorded,
                      published  |-> cur.published,
                      consumed   |-> cur.consumed]
    /\ unsettled' = unsettled - 1
    /\ cur' = NoDelivery
    /\ subPc' = "recv"
    /\ UNCHANGED << subFrame, subErr, deliveries, records, outbox, thumbs >>

Next ==
    \/ LoadConfig \/ ConnectDatabase \/ NewObjectStoreClient \/ DialBroker
    \/ OpenChannel \/ DeclareInbound \/ DeclareOutbound \/ DeclareQueue
    \/ Construct \/ Launch
    \/ Interrupt \/ MainSignal \/ MainCancel \/ MainCtxDone \/ Restart
    \/ HttpServe \/ HttpRunError
    \/ SubStart \/ SubTransportError \/ SubCancelled \/ SubReceive
    \/ WorkerFetch \/ WorkerDimension \/ WorkerPersist \/ WorkerPublish \/ SubSettle

Spec == Init /\ [][Next]_vars

(***************************************************************************)
(* The object store adapter on its own: any sequence of Put and Get calls  *)
(* with any content and any failure of the reader, the writer, the close   *)
(* and the backend.                                                        *)
(***************************************************************************)
InitBucket ==
    /\ env = [bucketExchange |-> "bucket", workerExchange |-> "worker", queue |-> "thumbs"]
    /\ broker = EmptyBroker
    /\ InitProcess
    /\ InitRest

\* the keys the calls use
BucketKeys == {ThumbName(s, 1) : s \in Sources}

BucketPut ==
    /\ ops < MaxOps
    /\ ops' = ops + 1
    /\ \E key \in BucketKeys, reader \in Readers, wcap \in 0 .. MaxLen, closeOk \in BOOLEAN :
          LET r == Put(thumbs, key, reader, wcap, closeOk)
          IN  /\ thumbs' = r.bucket
              /\ stored' = IF r.err THEN stored
                           ELSE [stored EXCEPT ![key] = << reader.data >>]
              /\ lastOp' = [NoOp EXCEPT !.op = "put", !.key = key, !.reader = reader,
                                        !.wcap = wcap, !.closeOk = closeOk, !.err = r.err,
                                        !.written = r.written, !.closed = r.closed]
    /\ UNCHANGED << env, broker, topoRuns, procVars, workVars >>

BucketGet ==
    /\ ops < MaxOps
    /\ ops' = ops + 1
    /\ \E key \in BucketKeys, backendOk \in BOOLEAN :
          LET r == Get(thumbs, key, backendOk)
          IN  lastOp' = [NoOp EXCEPT !.op = "get", !.key = key, !.backendOk = backendOk,
                                     !.err = r.err, !.data = r.data]
    /\ UNCHANGED << env, broker, topoRuns, procVars, workVars, thumbs, stored >>

NextBucket == BucketPut \/ BucketGet

SpecBucket == InitBucket /\ [][NextBucket]_vars


(***************************************************************************)
(* Properties.                                                             *)
(***************************************************************************)

\* C1: when an interrupt is delivered after startup completed, the shared
\* context is cancelled and the process, ended by the supervisory loop,
\* exits with status 0.
C1_InterruptExitsZero ==
    (pc = "exited" /\ exitBy = "supervisor" /\ interrupted)
        => (ctxDone /\ exitCode = 0)

\* C2: once the receive loop has ended with a transport error and no
\* interrupt was received, the failure has reached the supervisory loop: the
\* process has exited with a non-zero status, or the loop has the cancelled
\* context to act on.  It is not left logged with the loop blocked.
C2_TransportFailureIsFatal ==
    (subPc = "ended" /\ subErr /\ ~interrupted)
        => ((pc = "exited" /\ exitCode # 0) \/ ctxDone)

\* C3: the startup steps run in the order of StartupOrder; a step that fails
\* is the last step of the run and ends the process; the subscriber and the
\* HTTP server are launched only when every earlier step returned no error.
C3_StartupOrder ==
    /\ Len(done) <= Len(StartupOrder)
    /\ \A i \in 1 .. Len(done) :
          /\ done[i].step = StartupOrder[i]
          /\ done[i].err # "none" => (i = Len(done) /\ pc = "exited")
    /\ (subPc # "off" \/ httpPc # "off") =>
          /\ Len(done) = Len(StartupOrder)
          /\ \A i \in 1 .. Len(done) : done[i].err = "none"

C3_Witness ==
    /\ pc = "supervise"
    /\ subPc = "recv"
    /\ httpPc = "serving"
    /\ Len(done) = Len(StartupOrder)

\* C4: once a run completed the topology setup, the broker holds the inbound
\* and the outbound exchange, each fanout, durable and not auto-deleted, and
\* exactly one queue, durable, not exclusive, not auto-deleted, whose only
\* binding is the one with the empty routing key to the inbound exchange.
C4_TopologyHeld ==
    topoRuns > 0 =>
       /\ \A n \in {env.bucketExchange, env.workerExchange} :
             /\ \E e \in broker.exchanges :
                   e.name = n /\ e.kind = "fanout" /\ e.durable /\ ~e.autoDelete
             /\ Cardinality({e \in broker.exchanges : e.name = n}) = 1
       /\ broker.queues = {[name |-> env.queue, durable |-> TRUE, autoDelete |-> FALSE,
                            exclusive |-> FALSE]}
       /\ broker.bindings = {[queue |-> env.queue, key |-> "",
                              exchange |-> env.bucketExchange]}

C4_Witness ==
    /\ topoRuns > 0
    /\ pc = "supervise"
    /\ env.workerExchange # env.bucketExchange
    /\ Cardinality(broker.exchanges) = 2

\* C5: a declaration step run against the broker state an earlier successful
\* topology setup left is answered without a broker error and leaves the
\* exchanges, queues and bindings as they were.
C5_TopologyIdempotent ==
    [][(topoRuns > 0 /\ pc \in {"declareIn", "declareOut", "declareQueue"} /\ pc' # pc)
          => /\ broker' = broker
             /\ done'[Len(done')].err \in {"none", "transport"}]_vars

C5_Witness ==
    /\ topoRuns = 2
    /\ run = 2
    /\ pc = "construct"

\* C6: a Put that returns success has copied the whole stream, without read
\* or write error, and closed the writer without error; a copy error and a
\* close error are both returned as failure.
C6_PutSuccessMeansCopiedAndClosed ==
    lastOp.op = "put" =>
       /\ ~lastOp.err =>
             /\ lastOp.written = lastOp.reader.data
             /\ ~lastOp.reader.fails
             /\ lastOp.closed
             /\ lastOp.closeOk
       /\ (Copy(lastOp.reader, lastOp.wcap).err \/ ~lastOp.closeOk) => lastOp.err

C6_Witness ==
    /\ lastOp.op = "put"
    /\ ~lastOp.err
    /\ Len(lastOp.written) = MaxLen

\* C7: a Get that succeeds yields exactly the content of the last Put on the
\* key that returned success, it succeeds on such a key when the backend
\* answers, and a Get on a key never stored returns an error.
C7_RoundTrip ==
    lastOp.op = "get" =>
       /\ stored[lastOp.key] = << >> => lastOp.err
       /\ ~lastOp.err => /\ stored[lastOp.key] # << >>
                         /\ lastOp.data = stored[lastOp.key][1]
       /\ (lastOp.backendOk /\ stored[lastOp.key] # << >>) => ~lastOp.err

C7_Witness ==
    /\ lastOp.op = "get"
    /\ ~lastOp.err
    /\ Len(lastOp.data) = MaxLen
    /\ ops = 3

\* C9: a PhotoRecord exists only for a source whose thumbnails of all
\* dimensions are stored, and it references exactly those; a request whose
\* transform or store failed at some dimension has written no PhotoRecord
\* and published no message, whatever was stored before the failure.
C9_AllOrNothing ==
    /\ \A s \in Sources :
          records[s] # << >> =>
             /\ StoredDims(thumbs, s) = Dimensions
             /\ records[s][Len(records[s])] = ThumbNames(s)
    /\ cur.recorded => StoredDims(thumbs, cur.src) = Dimensions
    /\ cur.failed \in {"transform", "store"} => (~cur.recorded /\ ~cur.published)
    /\ lastSettle.failed \in {"transform", "store"} =>
          (~lastSettle.recorded /\ ~lastSettle.published /\ lastSettle.kind = "nack")

C9_Witness ==
    /\ lastSettle.failed \in {"transform", "store"}
    /\ lastSettle.storedDims # {}
    /\ lastSettle.storedDims # Dimensions
    /\ lastSettle.src \in Sources
    /\ records[lastSettle.src] = << >>

\* Replay at the object store, the part of C10 that Bucket.Put decides: once
\* a source was processed, processing its message again leaves the stored
\* thumbnail keys of the source as they were, one object under each key
\* ThumbName(source, dimension), and every PhotoRecord persisted for the
\* source names these keys. How many entries the database keeps for the
\* source is not stated here.
ReplayKeepsStoredKeys ==
    [][\A s \in Sources :
          records[s] # << >> =>
             /\ StoredKeys(thumbs', s) = StoredKeys(thumbs, s)
             /\ StoredKeys(thumbs, s) = ThumbNames(s)
             /\ \A k \in ThumbNames(s) : Len(thumbs'[k]) = 1 /\ Len(thumbs[k]) = 1
             /\ \A i \in 1 .. Len(records'[s]) : records'[s][i] = StoredKeys(thumbs', s)]_vars

ReplayReached ==
    \E s \in Sources :
       /\ Len(records[s]) = 2
       /\ lastSettle.kind = "ack"
       /\ lastSettle.src = s
       /\ \A k \in ThumbNames(s) : Len(thumbs[k]) = 1

\* C11 as stated: every delivery taken is settled exactly once. At most one
\* delivery is unsettled, and it is the one in the hands of the Consumer; a
\* delivery that failed to decode was rejected without reaching the Consumer;
\* a decoded one was acknowledged exactly when the Consumer reported success
\* and negatively acknowledged exactly when it reported failure; and when the
\* supervisory loop has ended the process, every delivery taken was settled,
\* unless a transport error had ended the Subscriber loop before.
C11_SettledExactlyOnce ==
    /\ unsettled \in {0, 1}
    /\ InFlight => (unsettled = 1 /\ cur.consumed)
    /\ lastSettle.kind = "reject" <=> lastSettle.failed = "decode"
    /\ lastSettle.kind = "reject" => ~lastSettle.consumed
    /\ lastSettle.kind = "ack" <=>
          (lastSettle.consumed /\ lastSettle.failed \in {"none", "publish"})
    /\ lastSettle.kind = "nack" <=>
          (lastSettle.consumed /\ lastSettle.failed \notin {"none", "publish"})
    /\ (pc = "exited" /\ exitBy = "supervisor" /\ ~subErr) => unsettled = 0


\* C12: when the supervisory loop ends the process after an interrupt, no
\* unit of work is in flight: a delivery taken before the exit has run to
\* completion or failure and was settled.
C12_InFlightFinishesBeforeExit ==
    (pc = "exited" /\ exitBy = "supervisor" /\ interrupted)
        => (~InFlight /\ unsettled = 0)


\* C13: whenever the process has exited after the broker connection and the
\* channel were opened, main has closed the channel and then the connection.
C13_ClosedBeforeExit ==
    (pc = "exited" /\ deferred = << "connection", "channel" >>)
        => closed = << "channel", "connection" >>


\* C14: once the run call of the HTTP server has returned an error, the
\* process has exited with a non-zero status on that account; the error can
\* strike, and has this effect, in every state of the subscriber and of the
\* shared context.
C14_HttpFailureIsFatal ==
    /\ httpPc = "failed" => (pc = "exited" /\ exitCode # 0 /\ exitBy = "http")
    /\ (Alive /\ httpPc \in {"start", "serving"}) => ENABLED HttpRunError

C14_Witness ==
    /\ httpPc = "failed"
    /\ pc = "exited"
    /\ exitCode = 1
    /\ InFlight
    /\ ctxDone


\* C15: main is at a step that operates on the broker channel only while no
\* goroutine has been launched; once they are launched, whatever is received,
\* settled or published on the channel is the effect of a step of the
\* subscriber, taken at a position where it operates on the channel, and
\* never of a step of main or of the HTTP goroutine; the topology changes
\* only before the launch.
C15_ChannelSerial ==
    /\ [](pc \in ChannelSteps => (subPc = "off" /\ httpPc = "off"))
    /\ [][/\ << deliveries, outbox, lastSettle >>' # << deliveries, outbox, lastSettle >>
             => /\ subPc \in {"recv", "publish", "settle"}
                /\ pc' = pc /\ Supervising
                /\ httpPc' = httpPc
          /\ broker' # broker => (pc \in ChannelSteps /\ subPc = "off")]_vars

C15_Witness ==
    /\ pc = "supervise"
    /\ httpPc = "serving"
    /\ subPc = "recv"
    /\ lastSettle.kind = "ack"
    /\ lastSettle.published


\* C16: the shared context is done only when an interrupt was received in
\* this run: neither the end of the subscriber, with or without error, nor
\* the HTTP goroutine cancels it.
C16_DoneOnlyByInterrupt ==
    /\ ctxDone => interrupted
    /\ (subPc = "ended" /\ ~interrupted) => ~ctxDone
    /\ (httpPc # "off" /\ ~interrupted) => ~ctxDone

C16_Witness ==
    /\ ctxDone
    /\ interrupted
    /\ pc = "supervise"
    /\ subPc = "ended"
    /\ subErr


\* C17: a Put whose copy fails returns the error without closing the writer
\* and leaves the store as it was: every key, the key of the call included,
\* still answers a Get with the content it had before the call.
C17_FailedCopyLeavesStore ==
    [][ (ops' # ops /\ lastOp'.op = "put" /\ Copy(lastOp'.reader, lastOp'.wcap).err) =>
           /\ lastOp'.err
           /\ ~lastOp'.closed
           /\ thumbs' = thumbs
           /\ stored' = stored
           /\ \A k \in BucketKeys, backendOk \in BOOLEAN :
                 Get(thumbs', k, backendOk) = Get(thumbs, k, backendOk) ]_vars

C17_Witness ==
    /\ lastOp.op = "put"
    /\ lastOp.err
    /\ Copy(lastOp.reader, lastOp.wcap).err
    /\ ~lastOp.closed
    /\ lastOp.closeOk
    /\ thumbs[lastOp.key] # << >>
    /\ ~Get(thumbs, lastOp.key, TRUE).err
    /\ Get(thumbs, lastOp.key, TRUE).data = stored[lastOp.key][1]
    /\ Get(thumbs, lastOp.key, TRUE).data # lastOp.written


\* C18: declareAndBindQueue binds only after a successful declaration: a
\* declaration error is returned with the empty queue and no binding is
\* made; after a successful declaration the result of the binding is
\* returned with the queue. main treats either error as fatal: the process
\* exits non-zero at this step, before any component is constructed.
C18_BindOnlyAfterDeclare ==
    /\ [](pc = "declareQueue" =>
            \A declOk \in BOOLEAN, bindOk \in BOOLEAN :
               LET d == QueueDeclare(broker, env.queue, TRUE, FALSE, FALSE, declOk)
                   r == declareAndBindQueue(broker, env.queue, env.bucketExchange,
                                            declOk, bindOk)
               IN  /\ d.err # "none" =>
                          /\ r.q = ""
                          /\ r.err = d.err
                          /\ r.broker.bindings = broker.bindings
                   /\ d.err = "none" =>
                          /\ r.q = env.queue
                          /\ r.err = QueueBind(d.broker, d.name, "", env.bucketExchange,
                                               bindOk).err
                          /\ r.broker = QueueBind(d.broker, d.name, "", env.bucketExchange,
                                                  bindOk).broker)
    /\ [][ (pc = "declareQueue" /\ pc' # pc) =>
              LET err == done'[Len(done')].err
                  b   == [queue |-> env.queue, key |-> "", exchange |-> env.bucketExchange]
              IN  /\ err # "none" =>
                        /\ pc' = "exited"
                        /\ exitCode' = 1
                        /\ exitBy' = "startup"
                        /\ subPc' = "off"
                        /\ httpPc' = "off"
                  /\ err = "none" =>
                        /\ pc' = "construct"
                        /\ q' = env.queue
                        /\ b \in broker'.bindings
                  /\ q' = "" =>
                        /\ err # "none"
                        /\ broker'.bindings = broker.bindings
                  /\ broker'.bindings # broker.bindings =>
                        /\ q' = env.queue
                        /\ \E x \in broker'.queues : x.name = env.queue ]_vars

\* the declaration failed on a broker that holds the queue without its binding
C18_Witness ==
    /\ pc = "exited"
    /\ exitCode = 1
    /\ Len(done) > 0
    /\ done[Len(done)].step = "declareQueue"
    /\ done[Len(done)].err # "none"
    /\ q = ""
    /\ \E x \in broker.queues : x.name = env.queue
    /\ broker.bindings = {}

=============================================================================
